---- MODULE Spec2Model ----
(***************************************************************************)
(* RewardLoop: the loyalty ledger (Redux loyalty slice), the favorites and *)
(* auth slices, the AsyncStorage mirror of the three, and the hooks that   *)
(* tie them together (login screen, product detail screen, favorites       *)
(* screen, root navigator hydration, top-level error boundary).            *)
(*                                                                         *)
(* One process of the application runs against one persistent key-value   *)
(* store; Restart kills the process and launches a new one on the same     *)
(* store.  A handler that runs without yielding to the event loop is one   *)
(* action.  React components see the store through the values captured by  *)
(* their last render; Render is the step that re-captures them.            *)
(***************************************************************************)
EXTENDS Integers, Sequences, FiniteSets, TLC

\* ------------------------------------------------------------ bounds
NumProducts == 1       \* products the catalog offers
MaxEarns == 2          \* earnPoints dispatches (done or in flight) per process,
                       \* and transactions a ledger holds
MaxPendingLogins == 1  \* loginUser thunks in flight at once
MaxClock == 1          \* last reading of the clock (the first is 0)
DebounceTicks == 2     \* clock ticks that make up the 300 ms debounce delay
MaxFetches == 1        \* thunks of one kind in flight at once
MaxThemeWrites == 2    \* writes of the theme preference in flight at once
NumFavProducts == 2    \* products offered when the favorites screens run alone

\* ------------------------------------------------- program constants
LOGIN_BONUS == 5
FAVORITE_ADDED == 10

Products == 1 .. NumProducts

Null == "null"          \* JS null
AccessToken == "accessToken"
UserData == "userData"

\* An optional value is a sequence of length 0 (none) or 1 (the value).
None == <<>>
Some(v) == <<v>>
Get(opt) == opt[1]

\* A stored entry: missing, a string JSON.parse throws on, or a parsed value.
Absent == [kind |-> "absent", value |-> None]
Corrupt == [kind |-> "corrupt", value |-> None]
Json(v) == [kind |-> "json", value |-> Some(v)]
Parsed(entry) == Get(entry.value)

TxTypes == {"LOGIN_BONUS", "FAVORITE_ADDED"}

\* STORAGE_KEYS
STORAGE_KEYS == {"authToken", "userData", "favorites", "loyaltyData"}

VARIABLES
    auth,          \* store.auth: [token, user, isLoggedIn, loading, error]
    loyalty,       \* store.loyalty: [points, transactions]
    favorites,     \* store.favorites.items: sequence of product ids
    storage,       \* AsyncStorage: key -> Absent | Corrupt | Json(value)
    hasError,      \* ErrorBoundary.state.hasError
    error,         \* ErrorBoundary.state.error: Null or the value caught
    isHydrating,   \* AppNavigator's isHydrating state
    pendingLogins, \* loginUser thunks dispatched and not yet settled
    detail,        \* ProductDetailScreen's last render: None or
                   \*   Some([product, favorites, loyalty])
    favList,       \* FavoritesScreen's last render: None or Some(favorites)
    timers,        \* pending setTimeout callbacks: the data each will save
    earnLog,       \* history: payloads of the earnPoints dispatched by this
                   \*   process, oldest first
    nSetLoyalty,   \* history: setLoyaltyData dispatches of this process
    nLoginFulfilled, \* history: loginUser.fulfilled of this process
    nFavInserted,  \* history: addFavorite dispatches that inserted an item
    clock,         \* the reading Date.now() returns
    products,      \* store.products: [items, filteredItems, categories,
                   \*   loading, error, searchQuery, selectedCategory]
    listMounted,   \* whether ProductListScreen is mounted
    fetching,      \* thunks in flight: [products, categories], the number
                   \*   of fetchProducts and of fetchCategories
    debounced,     \* useDebounce's debouncedValue
    debounceTimers, \* useDebounce's pending setTimeout callbacks, each
                   \*   [value, remaining]: the value it will emit and the
                   \*   ticks left until it is due
    inputAge,      \* history: ticks for which searchQuery has had its
                   \*   present value, counted up to the debounce delay
    isDark,        \* ThemeProvider's isDark state
    isLoaded,      \* ThemeProvider's isLoaded state
    systemScheme,  \* what useColorScheme() returns: "dark", "light" or Null
    themeStored,   \* the entry under THEME_STORAGE_KEY: None or Some(string)
    themeWrites,   \* setItem calls of toggleTheme in flight, oldest first
    themeHist,     \* history: [lastSet, failed, loadFailed, trail]: the value
                   \*   the last toggleTheme set (in any process), whether a
                   \*   write of the preference has failed or was cut off by a
                   \*   restart, whether this process's read of it failed, and
                   \*   isDark before each of this process's last two toggles
    lastOp         \* history: the step taken last, [op, snap, fail, first]:
                   \*   snap the data a hook handed to saveLoyaltyData in that
                   \*   step, fail the read that rejected in hydrateAuth, first
                   \*   whether hydrateAuth ran as the process's first step
                   \*   (when the loyalty slice is driven alone, snap is the
                   \*   payload dispatched, or the ledger resetLoyalty met)

vars == <<auth, loyalty, favorites, storage, hasError, error, isHydrating,
          pendingLogins, detail, favList, timers, earnLog, nSetLoyalty,
          nLoginFulfilled, nFavInserted, lastOp, clock, products,
          listMounted, fetching, debounced, debounceTimers, inputAge,
          isDark, isLoaded, systemScheme, themeStored, themeWrites,
          themeHist>>

\* The product list screen and the theme provider.
listVars == <<products, listMounted, fetching, debounced, debounceTimers,
              inputAge>>
themeVars == <<isDark, isLoaded, systemScheme, themeStored, themeWrites,
               themeHist>>

\* What the handlers of the session, ledger and favorites never write.
aux == <<clock, listVars, themeVars>>

\* ----------------------------------------------------- pure helpers
RECURSIVE SumPoints(_)
SumPoints(txs) ==
    IF txs = <<>> THEN 0 ELSE Head(txs).points + SumPoints(Tail(txs))

RECURSIVE Filter(_, _)
\* Array.prototype.filter(item => item.id !== id)
Filter(items, id) ==
    IF items = <<>> THEN <<>>
    ELSE IF Head(items) = id THEN Filter(Tail(items), id)
         ELSE <<Head(items)>> \o Filter(Tail(items), id)

Contains(items, id) == \E i \in 1 .. Len(items) : items[i] = id

CountType(txs, type) == Cardinality({i \in 1 .. Len(txs) : txs[i].type = type})

Min(a, b) == IF a < b THEN a ELSE b

Tx(type, points) == [type |-> type, points |-> points]

\* ------------------------------------------------------- reducers
\* loyaltySlice
initialLoyalty == [points |-> 0, transactions |-> <<>>]

\* Variant: the total is overwritten by the payload instead of incremented.
earnPointsOverwrite(state, type, points) ==
    [points |-> points,
     transactions |-> <<Tx(type, points)>> \o state.transactions]

earnPoints(state, type, points) ==
    [points |-> state.points + points,
     transactions |-> <<Tx(type, points)>> \o state.transactions]

\* Variant: the total is recomputed from the supplied transactions.
setLoyaltyDataRederives(state, payload) ==
    [points |-> SumPoints(payload.transactions),
     transactions |-> payload.transactions]

setLoyaltyData(state, payload) ==
    [points |-> payload.points, transactions |-> payload.transactions]

\* Variant: the total is cleared and the history kept.
resetLoyaltyKeepsHistory(state) ==
    [points |-> 0, transactions |-> state.transactions]

resetLoyalty(state) == initialLoyalty

\* earnPoints with the id it gives the transaction: Date.now().toString().
\* (description and date are left out: no property reads them.)
TxAt(type, points, now) ==
    [id |-> ToString(now), type |-> type, points |-> points]

\* Variant: push instead of unshift.
earnPointsAtPush(state, type, points, now) ==
    [points |-> state.points + points,
     transactions |-> Append(state.transactions, TxAt(type, points, now))]

earnPointsAt(state, type, points, now) ==
    [points |-> state.points + points,
     transactions |-> <<TxAt(type, points, now)>> \o state.transactions]

\* favoritesSlice
\* Variant: no check for an item with the same id.
addFavoriteNoCheck(items, id) == Append(items, id)

addFavorite(items, id) == IF Contains(items, id) THEN items ELSE Append(items, id)

removeFavorite(items, id) == Filter(items, id)

setFavorites(items, payload) == payload

\* authSlice
initialAuth ==
    [token |-> Null, user |-> Null, isLoggedIn |-> FALSE,
     loading |-> FALSE, error |-> Null]

setCredentials(state, token, user) ==
    [state EXCEPT !.token = token, !.user = user,
                  !.isLoggedIn = TRUE, !.error = Null]

clearError(state) == [state EXCEPT !.error = Null]

loginPending(state) == [state EXCEPT !.loading = TRUE, !.error = Null]

loginFulfilled(state, token, user) ==
    [state EXCEPT !.loading = FALSE, !.token = token, !.user = user,
                  !.isLoggedIn = TRUE]

\* Variant: the rejection records the message and leaves loading set.
loginRejectedKeepsLoading(state) == [state EXCEPT !.error = "message"]

loginRejected(state) ==
    [state EXCEPT !.loading = FALSE, !.error = "message"]

logoutFulfilled(state) == initialAuth

\* ------------------------------------------------------- storage.js
\* AsyncStorage.setItem inside try/catch: the write lands or is swallowed.
SetItem(store, key, value, ok) ==
    IF ok THEN [store EXCEPT ![key] = Json(value)] ELSE store

saveLoyaltyData(store, data, ok) == SetItem(store, "loyaltyData", data, ok)

saveFavorites(store, items, ok) == SetItem(store, "favorites", items, ok)

\* ------------------------------------------------------- strings
\* A string is the sequence of its characters.
LowerChar(c) == IF c = "A" THEN "a" ELSE IF c = "B" THEN "b" ELSE c

\* String.prototype.toLowerCase
toLowerCase(str) == [i \in 1 .. Len(str) |-> LowerChar(str[i])]

RECURSIVE trimStart(_)
trimStart(str) ==
    IF str # <<>> /\ Head(str) = " " THEN trimStart(Tail(str)) ELSE str

RECURSIVE trimEnd(_)
trimEnd(str) ==
    IF str # <<>> /\ str[Len(str)] = " "
    THEN trimEnd(SubSeq(str, 1, Len(str) - 1)) ELSE str

\* String.prototype.trim
trim(str) == trimEnd(trimStart(str))

\* String.prototype.includes
includes(str, part) ==
    \E i \in 0 .. Len(str) :
        /\ i + Len(part) <= Len(str)
        /\ SubSeq(str, i + 1, i + Len(part)) = part

\* ------------------------------------------------------- productsSlice
initialProducts ==
    [items |-> <<>>, filteredItems |-> <<>>, categories |-> <<>>,
     loading |-> FALSE, error |-> Null, searchQuery |-> <<>>,
     selectedCategory |-> "all"]

setSearchQuery(state, text) == [state EXCEPT !.searchQuery = text]

setSelectedCategory(state, category) ==
    [state EXCEPT !.selectedCategory = category]

\* Variant: the title is matched without lower-casing it.
filterProductsCaseSensitive(state) ==
    LET byCategory ==
            IF state.selectedCategory # "all"
            THEN SelectSeq(state.items,
                           LAMBDA item : item.category = state.selectedCategory)
            ELSE state.items
        query == trim(toLowerCase(state.searchQuery))
        filtered ==
            IF trim(state.searchQuery) # <<>>
            THEN SelectSeq(byCategory,
                           LAMBDA item : includes(item.title, query))
            ELSE byCategory
    IN  [state EXCEPT !.filteredItems = filtered]

filterProducts(state) ==
    LET byCategory ==
            IF state.selectedCategory # "all"
            THEN SelectSeq(state.items,
                           LAMBDA item : item.category = state.selectedCategory)
            ELSE state.items
        query == trim(toLowerCase(state.searchQuery))
        filtered ==
            IF trim(state.searchQuery) # <<>>
            THEN SelectSeq(byCategory,
                           LAMBDA item : includes(toLowerCase(item.title), query))
            ELSE byCategory
    IN  [state EXCEPT !.filteredItems = filtered]

fetchProductsPending(state) ==
    [state EXCEPT !.loading = TRUE, !.error = Null]

fetchProductsFulfilled(state, payload) ==
    [state EXCEPT !.loading = FALSE, !.items = payload,
                  !.filteredItems = payload]

fetchProductsRejected(state) ==
    [state EXCEPT !.loading = FALSE, !.error = "message"]

fetchCategoriesFulfilled(state, payload) ==
    [state EXCEPT !.categories = payload]

\* ------------------------------------------------------- RewardsScreen
\* The reward tiers, each with the points that unlock it.
REWARD_TIERS ==
    <<[points |-> 50, label |-> "50 Coupon"],
      [points |-> 100, label |-> "100 Coupon"],
      [points |-> 250, label |-> "250 Coupon"],
      [points |-> 500, label |-> "500 Coupon"],
      [points |-> 1000, label |-> "Premium Reward"]>>

\* Variant: a tier unlocks only above its threshold.
unlockedTiersStrict(points) ==
    SelectSeq(REWARD_TIERS, LAMBDA tier : points > tier.points)

\* RewardsScreen's unlockedTiers
unlockedTiers(points) ==
    SelectSeq(REWARD_TIERS, LAMBDA tier : points >= tier.points)

\* The isUnlocked prop RewardsScreen passes to a tier's card.
isUnlocked(points, tier) == points >= tier.points

\* PointsHeroCard's nextTier: Array.prototype.find, absent when nothing matches.
nextTier(points) ==
    LET hits == {i \in 1 .. Len(REWARD_TIERS) : REWARD_TIERS[i].points > points}
    IN  IF hits = {} THEN None
        ELSE Some(REWARD_TIERS[CHOOSE i \in hits : \A j \in hits : i <= j])

\* ------------------------------------------------------- history
\* Steps no property singles out are recorded as "other".
Op(name) == [op |-> name, snap |-> None, fail |-> "none", first |-> FALSE]

\* ------------------------------------------------------- initial state
EmptyStorage == [k \in STORAGE_KEYS |-> Absent]

Boot(store) ==
    /\ auth = initialAuth
    /\ loyalty = initialLoyalty
    /\ favorites = <<>>
    /\ storage = store
    /\ hasError = FALSE
    /\ error = Null
    /\ isHydrating = TRUE
    /\ pendingLogins = 0
    /\ detail = None
    /\ favList = None
    /\ timers = <<>>
    /\ earnLog = <<>>
    /\ nSetLoyalty = 0
    /\ nLoginFulfilled = 0
    /\ nFavInserted = 0
    /\ lastOp = Op("boot")
    /\ clock = 0

\* The products slice and the list screen's hooks before the screen mounts.
ListBoot ==
    /\ products = initialProducts
    /\ listMounted = FALSE
    /\ fetching = [products |-> 0, categories |-> 0]
    /\ debounced = <<>>
    /\ debounceTimers = {}
    /\ inputAge = 0

\* ThemeProvider's useState initial values, for a system scheme and a stored
\* preference.
ThemeBoot(scheme, stored) ==
    /\ systemScheme = scheme
    /\ isDark = (scheme = "dark")
    /\ isLoaded = FALSE
    /\ themeStored = stored
    /\ themeWrites = <<>>
    /\ themeHist = [lastSet |-> None, failed |-> FALSE, loadFailed |-> FALSE,
                    trail |-> <<>>]

Init == Boot(EmptyStorage) /\ ListBoot /\ ThemeBoot("light", None)

\* ------------------------------------------------------- what is on screen
\* AppNavigator renders the splash while isHydrating, else Main or Login.
MainVisible == ~hasError /\ ~isHydrating /\ auth.isLoggedIn
\* Variant: the navigator does not wait for isHydrating.
LoginVisibleNoSplash == ~hasError /\ ~auth.isLoggedIn

LoginVisible == ~hasError /\ ~isHydrating /\ ~auth.isLoggedIn

\* Room for one more earnPoints within the bounds.
EarnBudget ==
    /\ Len(earnLog) + pendingLogins < MaxEarns
    /\ Len(loyalty.transactions) + pendingLogins < MaxEarns

\* ------------------------------------------------------- AppNavigator
\* hydrateAuth: the try block up to the first throw, then finally.
\* failAt is the getItem that rejects, if any.
ReadFailPoints == {"none", "authToken", "userData", "loyaltyData", "favorites"}

HydrateReachesToken(failAt) ==
    /\ failAt \notin {"authToken", "userData"}
    /\ storage["authToken"].kind # "absent"
    /\ storage["userData"].kind # "corrupt"

HydrateReachesLoyalty(failAt) ==
    /\ HydrateReachesToken(failAt)
    /\ failAt # "loyaltyData"

HydrateSetsLoyalty(failAt) ==
    /\ HydrateReachesLoyalty(failAt)
    /\ storage["loyaltyData"].kind = "json"

HydrateReachesFavorites(failAt) ==
    /\ HydrateReachesLoyalty(failAt)
    /\ storage["loyaltyData"].kind # "corrupt"
    /\ failAt # "favorites"

HydrateSetsFavorites(failAt) ==
    /\ HydrateReachesFavorites(failAt)
    /\ storage["favorites"].kind = "json"

\* Whether the try block of hydrateAuth throws: a read rejects or JSON.parse
\* meets an unparseable entry.
HydrateThrows(failAt) ==
    \/ failAt \in {"authToken", "userData"}
    \/ /\ storage["authToken"].kind # "absent"
       /\ \/ storage["userData"].kind = "corrupt"
          \/ failAt = "loyaltyData"
          \/ storage["loyaltyData"].kind = "corrupt"
          \/ failAt = "favorites"
          \/ storage["favorites"].kind = "corrupt"

\* Variant: setIsHydrating(false) ends the try block instead of sitting in
\* finally.
HydrateAuthNoFinally(failAt) ==
    /\ ~hasError
    /\ isHydrating
    /\ auth' = IF HydrateReachesToken(failAt)
               THEN setCredentials(auth, Parsed(storage["authToken"]),
                                    IF storage["userData"].kind = "json"
                                    THEN Parsed(storage["userData"]) ELSE Null)
               ELSE auth
    /\ loyalty' = IF HydrateSetsLoyalty(failAt)
                  THEN setLoyaltyData(loyalty, Parsed(storage["loyaltyData"]))
                  ELSE loyalty
    /\ nSetLoyalty' = IF HydrateSetsLoyalty(failAt)
                      THEN Min(nSetLoyalty + 1, 2) ELSE nSetLoyalty
    /\ favorites' = IF HydrateSetsFavorites(failAt)
                    THEN setFavorites(favorites, Parsed(storage["favorites"]))
                    ELSE favorites
    /\ isHydrating' = HydrateThrows(failAt)
    /\ lastOp' = [op |-> "hydrateAuth", snap |-> None, fail |-> failAt,
                 first |-> (lastOp.op = "boot")]
    /\ UNCHANGED <<storage, hasError, error, pendingLogins, detail, favList, timers,
                   earnLog, nLoginFulfilled, nFavInserted>>
    /\ UNCHANGED aux

HydrateAuth(failAt) ==
    /\ ~hasError
    /\ isHydrating
    /\ auth' = IF HydrateReachesToken(failAt)
               THEN setCredentials(auth, Parsed(storage["authToken"]),
                                    IF storage["userData"].kind = "json"
                                    THEN Parsed(storage["userData"]) ELSE Null)
               ELSE auth
    /\ loyalty' = IF HydrateSetsLoyalty(failAt)
                  THEN setLoyaltyData(loyalty, Parsed(storage["loyaltyData"]))
                  ELSE loyalty
    /\ nSetLoyalty' = IF HydrateSetsLoyalty(failAt)
                      THEN Min(nSetLoyalty + 1, 2) ELSE nSetLoyalty
    /\ favorites' = IF HydrateSetsFavorites(failAt)
                    THEN setFavorites(favorites, Parsed(storage["favorites"]))
                    ELSE favorites
    /\ isHydrating' = FALSE
    /\ lastOp' = [op |-> "hydrateAuth", snap |-> None, fail |-> failAt,
                 first |-> (lastOp.op = "boot")]
    /\ UNCHANGED <<storage, hasError, error, pendingLogins, detail, favList, timers,
                   earnLog, nLoginFulfilled, nFavInserted>>
    /\ UNCHANGED aux

\* ------------------------------------------------------- LoginScreen
\* handleLogin up to the await: clearError, validate, loginUser.pending.
LoginPress(valid) ==
    /\ LoginVisible
    /\ pendingLogins < MaxPendingLogins
    /\ EarnBudget
    /\ auth' = IF valid THEN loginPending(clearError(auth)) ELSE clearError(auth)
    /\ pendingLogins' = IF valid THEN pendingLogins + 1 ELSE pendingLogins
    /\ lastOp' = Op("other")
    /\ UNCHANGED <<loyalty, favorites, storage, hasError, error, isHydrating, detail,
                   favList, timers, earnLog, nSetLoyalty, nLoginFulfilled,
                   nFavInserted>>
    /\ UNCHANGED aux

\* Variant: handleLogin awards the bonus without matching loginUser.fulfilled.
LoginRejectedAwards(tokenStored) ==
    /\ pendingLogins > 0
    /\ pendingLogins' = pendingLogins - 1
    /\ auth' = loginRejected(auth)
    /\ storage' = SetItem(storage, "authToken", AccessToken, tokenStored)
    /\ loyalty' = earnPoints(loyalty, "LOGIN_BONUS", LOGIN_BONUS)
    /\ earnLog' = Append(earnLog, Tx("LOGIN_BONUS", LOGIN_BONUS))
    /\ lastOp' = Op("other")
    /\ UNCHANGED <<favorites, hasError, error, isHydrating, detail, favList,
                   timers, nSetLoyalty, nLoginFulfilled, nFavInserted>>
    /\ UNCHANGED aux

\* loginUser's catch branch: the API call or a setItem threw.
\* tokenStored: the throw came after the token was written.
LoginRejected(tokenStored) ==
    /\ pendingLogins > 0
    /\ pendingLogins' = pendingLogins - 1
    /\ auth' = loginRejected(auth)
    /\ storage' = SetItem(storage, "authToken", AccessToken, tokenStored)
    /\ lastOp' = Op("other")
    /\ UNCHANGED <<loyalty, favorites, hasError, error, isHydrating, detail, favList,
                   timers, earnLog, nSetLoyalty, nLoginFulfilled, nFavInserted>>
    /\ UNCHANGED aux

\* The snapshot handleLogin hands to saveLoyaltyData.
LoginSnapshot ==
    [points |-> LOGIN_BONUS,
     transactions |-> <<Tx("LOGIN_BONUS", LOGIN_BONUS)>>]

\* loginUser resolves; handleLogin resumes: earnPoints, saveLoyaltyData.
LoginFulfilled(saveOk) ==
    /\ pendingLogins > 0
    /\ pendingLogins' = pendingLogins - 1
    /\ auth' = loginFulfilled(auth, AccessToken, UserData)
    /\ loyalty' = earnPoints(loyalty, "LOGIN_BONUS", LOGIN_BONUS)
    /\ storage' = saveLoyaltyData(
                      [storage EXCEPT !["authToken"] = Json(AccessToken),
                                      !["userData"] = Json(UserData)],
                      LoginSnapshot, saveOk)
    /\ earnLog' = Append(earnLog, Tx("LOGIN_BONUS", LOGIN_BONUS))
    /\ nLoginFulfilled' = nLoginFulfilled + 1
    /\ lastOp' = [op |-> "loginFulfilled", snap |-> Some(LoginSnapshot),
                 fail |-> "none", first |-> FALSE]
    /\ UNCHANGED <<favorites, hasError, error, isHydrating, detail, favList, timers,
                   nSetLoyalty, nFavInserted>>
    /\ UNCHANGED aux

\* ------------------------------------------------------- HeaderRight
\* logoutUser: multiRemove of the two auth keys, then logoutUser.fulfilled;
\* a failed multiRemove ends in logoutUser.rejected, which no reducer handles.
Logout(removeOk) ==
    /\ MainVisible
    /\ storage' = IF removeOk
                  THEN [storage EXCEPT !["authToken"] = Absent,
                                       !["userData"] = Absent]
                  ELSE storage
    /\ auth' = IF removeOk THEN logoutFulfilled(auth) ELSE auth
    /\ detail' = IF removeOk THEN None ELSE detail
    /\ favList' = IF removeOk THEN None ELSE favList
    /\ lastOp' = Op(IF removeOk THEN "logoutFulfilled" ELSE "logoutRejected")
    /\ UNCHANGED <<loyalty, favorites, hasError, error, isHydrating, pendingLogins,
                   timers, earnLog, nSetLoyalty, nLoginFulfilled, nFavInserted>>
    /\ UNCHANGED aux

\* ------------------------------------------------------- ProductDetailScreen
\* What the component's useSelector calls return at a render.
DetailRender(p) == [product |-> p, favorites |-> favorites, loyalty |-> loyalty]

\* Navigation to the detail screen of product p: it mounts and renders.
OpenDetail(p) ==
    /\ MainVisible
    /\ detail # Some(DetailRender(p))
    /\ detail' = Some(DetailRender(p))
    /\ lastOp' = Op("other")
    /\ UNCHANGED <<auth, loyalty, favorites, storage, hasError, error, isHydrating,
                   pendingLogins, favList, timers, earnLog, nSetLoyalty,
                   nLoginFulfilled, nFavInserted>>
    /\ UNCHANGED aux

\* The tab of the favorites screen is opened: it mounts and renders.
OpenFavorites ==
    /\ MainVisible
    /\ favList = None
    /\ favList' = Some(favorites)
    /\ lastOp' = Op("other")
    /\ UNCHANGED <<auth, loyalty, favorites, storage, hasError, error, isHydrating,
                   pendingLogins, detail, timers, earnLog, nSetLoyalty,
                   nLoginFulfilled, nFavInserted>>
    /\ UNCHANGED aux

\* React re-renders the mounted screens with the store's current state.
RenderedDetail ==
    IF detail = None THEN None ELSE Some(DetailRender(Get(detail).product))
RenderedFavList == IF favList = None THEN None ELSE Some(favorites)

Render ==
    /\ MainVisible
    /\ detail # RenderedDetail \/ favList # RenderedFavList
    /\ detail' = RenderedDetail
    /\ favList' = RenderedFavList
    /\ lastOp' = Op("other")
    /\ UNCHANGED <<auth, loyalty, favorites, storage, hasError, error, isHydrating,
                   pendingLogins, timers, earnLog, nSetLoyalty,
                   nLoginFulfilled, nFavInserted>>
    /\ UNCHANGED aux

\* isFavorite as the last render computed it.
IsFavorite(d) == Contains(d.favorites, d.product)

\* Variant: the saved total omits the bonus of the transaction it lists.
FavoriteSnapshotNoBonus(d) ==
    [points |-> d.loyalty.points,
     transactions |->
         <<Tx("FAVORITE_ADDED", FAVORITE_ADDED)>> \o d.loyalty.transactions]

\* The data the setTimeout callback of handleToggleFavorite will save.
FavoriteSnapshot(d) ==
    [points |-> d.loyalty.points + FAVORITE_ADDED,
     transactions |->
         <<Tx("FAVORITE_ADDED", FAVORITE_ADDED)>> \o d.loyalty.transactions]

\* Variant: a rejected saveFavorites propagates and the dispatches are undone.
ToggleFavoriteAddRollsBack(saveOk) ==
    /\ MainVisible
    /\ detail # None
    /\ ~IsFavorite(Get(detail))
    /\ EarnBudget
    /\ Len(Get(detail).loyalty.transactions) < MaxEarns
    /\ LET d == Get(detail) IN
       /\ favorites' = IF saveOk THEN addFavorite(favorites, d.product)
                       ELSE favorites
       /\ nFavInserted' = IF Contains(favorites, d.product) \/ ~saveOk
                          THEN nFavInserted ELSE nFavInserted + 1
       /\ loyalty' = IF saveOk
                     THEN earnPoints(loyalty, "FAVORITE_ADDED", FAVORITE_ADDED)
                     ELSE loyalty
       /\ earnLog' = IF saveOk
                     THEN Append(earnLog, Tx("FAVORITE_ADDED", FAVORITE_ADDED))
                     ELSE earnLog
       /\ storage' = saveFavorites(storage, Append(d.favorites, d.product), saveOk)
       /\ timers' = IF saveOk THEN Append(timers, FavoriteSnapshot(d)) ELSE timers
       /\ lastOp' = [op |-> "favoriteAdd", snap |-> Some(FavoriteSnapshot(d)),
                     fail |-> "none", first |-> FALSE]
    /\ UNCHANGED <<auth, hasError, error, isHydrating, pendingLogins, detail, favList,
                   nSetLoyalty, nLoginFulfilled>>
    /\ UNCHANGED aux

\* handleToggleFavorite, else branch.
ToggleFavoriteAdd(saveOk) ==
    /\ MainVisible
    /\ detail # None
    /\ ~IsFavorite(Get(detail))
    /\ EarnBudget
    /\ Len(Get(detail).loyalty.transactions) < MaxEarns
    /\ LET d == Get(detail) IN
       /\ favorites' = addFavorite(favorites, d.product)
       /\ nFavInserted' = IF Contains(favorites, d.product)
                          THEN nFavInserted ELSE nFavInserted + 1
       /\ loyalty' = earnPoints(loyalty, "FAVORITE_ADDED", FAVORITE_ADDED)
       /\ earnLog' = Append(earnLog, Tx("FAVORITE_ADDED", FAVORITE_ADDED))
       /\ storage' = saveFavorites(storage, Append(d.favorites, d.product), saveOk)
       /\ timers' = Append(timers, FavoriteSnapshot(d))
       /\ lastOp' = [op |-> "favoriteAdd", snap |-> Some(FavoriteSnapshot(d)),
                     fail |-> "none", first |-> FALSE]
    /\ UNCHANGED <<auth, hasError, error, isHydrating, pendingLogins, detail, favList,
                   nSetLoyalty, nLoginFulfilled>>
    /\ UNCHANGED aux

\* Variant: unfavoriting takes the bonus back and schedules a loyalty save.
ToggleFavoriteRemoveDeducts(saveOk) ==
    /\ MainVisible
    /\ detail # None
    /\ IsFavorite(Get(detail))
    /\ LET d == Get(detail) IN
       /\ favorites' = removeFavorite(favorites, d.product)
       /\ storage' = saveFavorites(storage, Filter(d.favorites, d.product), saveOk)
       /\ loyalty' = [loyalty EXCEPT !.points = @ - FAVORITE_ADDED]
    /\ lastOp' = Op("favoriteRemove")
    /\ UNCHANGED <<auth, hasError, error, isHydrating, pendingLogins, detail,
                   favList, timers, earnLog, nSetLoyalty, nLoginFulfilled,
                   nFavInserted>>
    /\ UNCHANGED aux

\* handleToggleFavorite, if branch.
ToggleFavoriteRemove(saveOk) ==
    /\ MainVisible
    /\ detail # None
    /\ IsFavorite(Get(detail))
    /\ LET d == Get(detail) IN
       /\ favorites' = removeFavorite(favorites, d.product)
       /\ storage' = saveFavorites(storage, Filter(d.favorites, d.product), saveOk)
    /\ lastOp' = Op("favoriteRemove")
    /\ UNCHANGED <<auth, loyalty, hasError, error, isHydrating, pendingLogins, detail,
                   favList, timers, earnLog, nSetLoyalty, nLoginFulfilled,
                   nFavInserted>>
    /\ UNCHANGED aux

\* The 100 ms timer of handleToggleFavorite fires.
TimerFire(saveOk) ==
    /\ timers # <<>>
    /\ storage' = saveLoyaltyData(storage, Head(timers), saveOk)
    /\ timers' = Tail(timers)
    /\ lastOp' = Op("other")
    /\ UNCHANGED <<auth, loyalty, favorites, hasError, error, isHydrating,
                   pendingLogins, detail, favList, earnLog, nSetLoyalty,
                   nLoginFulfilled, nFavInserted>>
    /\ UNCHANGED aux

\* ------------------------------------------------------- FavoritesScreen
\* handleRemove(productId), pressed on a card of the last render.
HandleRemove(p, saveOk) ==
    /\ MainVisible
    /\ favList # None
    /\ Contains(Get(favList), p)
    /\ favorites' = removeFavorite(favorites, p)
    /\ storage' = saveFavorites(storage, Filter(Get(favList), p), saveOk)
    /\ lastOp' = Op("handleRemove")
    /\ UNCHANGED <<auth, loyalty, hasError, error, isHydrating, pendingLogins, detail,
                   favList, timers, earnLog, nSetLoyalty, nLoginFulfilled,
                   nFavInserted>>
    /\ UNCHANGED aux

\* ------------------------------------------------------- ErrorBoundary
\* A screen throws while rendering: getDerivedStateFromError; the fallback
\* replaces the children, which unmount.
RenderError ==
    /\ ~hasError
    /\ ~isHydrating
    /\ hasError' = TRUE
    /\ error' = "thrown"
    /\ detail' = None
    /\ favList' = None
    /\ lastOp' = Op("other")
    /\ UNCHANGED <<auth, loyalty, favorites, storage, isHydrating,
                   pendingLogins, timers, earnLog, nSetLoyalty,
                   nLoginFulfilled, nFavInserted>>
    /\ UNCHANGED aux

\* Variant: handleRetry clears hasError and keeps the caught error.
HandleRetryKeepsError ==
    /\ hasError
    /\ hasError' = FALSE
    /\ error' = error
    /\ isHydrating' = TRUE
    /\ lastOp' = Op("other")
    /\ UNCHANGED <<auth, loyalty, favorites, storage, pendingLogins, detail,
                   favList, timers, earnLog, nSetLoyalty, nLoginFulfilled,
                   nFavInserted>>
    /\ UNCHANGED aux

\* handleRetry: the children mount again; the new AppNavigator starts with
\* isHydrating true and runs its effect.
HandleRetry ==
    /\ hasError
    /\ hasError' = FALSE
    /\ error' = Null
    /\ isHydrating' = TRUE
    /\ lastOp' = Op("other")
    /\ UNCHANGED <<auth, loyalty, favorites, storage, pendingLogins, detail,
                   favList, timers, earnLog, nSetLoyalty, nLoginFulfilled,
                   nFavInserted>>
    /\ UNCHANGED aux

\* ------------------------------------------------------- environment
\* The process is killed and launched again: memory is lost, storage is kept.
Restart ==
    /\ lastOp.op # "boot"
    /\ auth' = initialAuth
    /\ loyalty' = initialLoyalty
    /\ favorites' = <<>>
    /\ hasError' = FALSE
    /\ error' = Null
    /\ isHydrating' = TRUE
    /\ pendingLogins' = 0
    /\ detail' = None
    /\ favList' = None
    /\ timers' = <<>>
    /\ earnLog' = <<>>
    /\ nSetLoyalty' = 0
    /\ nLoginFulfilled' = 0
    /\ nFavInserted' = 0
    /\ lastOp' = Op("boot")
    /\ UNCHANGED storage
    /\ UNCHANGED aux

\* A stored JSON entry becomes unparseable (a torn or foreign write) while the
\* application is not running.
StorageCorrupt(k) ==
    /\ lastOp.op = "boot"
    /\ storage[k].kind = "json"
    /\ storage' = [storage EXCEPT ![k] = Corrupt]
    /\ lastOp' = lastOp
    /\ UNCHANGED <<auth, loyalty, favorites, hasError, error, isHydrating,
                   pendingLogins, detail, favList, timers, earnLog,
                   nSetLoyalty, nLoginFulfilled, nFavInserted>>
    /\ UNCHANGED aux

JsonKeys == {"userData", "favorites", "loyaltyData"}

\* ------------------------------------------------------- specification
Next ==
    \/ \E failAt \in ReadFailPoints : HydrateAuth(failAt)
    \/ \E valid \in BOOLEAN : LoginPress(valid)
    \/ \E tokenStored \in BOOLEAN : LoginRejected(tokenStored)
    \/ \E saveOk \in BOOLEAN : LoginFulfilled(saveOk)
    \/ \E removeOk \in BOOLEAN : Logout(removeOk)
    \/ \E p \in Products : OpenDetail(p)
    \/ OpenFavorites
    \/ Render
    \/ \E saveOk \in BOOLEAN : ToggleFavoriteAdd(saveOk)
    \/ \E saveOk \in BOOLEAN : ToggleFavoriteRemove(saveOk)
    \/ \E saveOk \in BOOLEAN : TimerFire(saveOk)
    \/ \E p \in Products, saveOk \in BOOLEAN : HandleRemove(p, saveOk)
    \/ RenderError
    \/ HandleRetry
    \/ Restart
    \/ \E k \in JsonKeys : StorageCorrupt(k)

Spec == Init /\ [][Next]_vars

\* The reads of hydrateAuth settle: a started hydration runs to its finally.
FairSpec == Spec /\ WF_vars(\E failAt \in ReadFailPoints : HydrateAuth(failAt))

\* ======================================================= the loyalty slice
\* The reducer of the loyalty slice driven alone, by any sequence of its
\* three actions with payloads from bounded sets, against a clock.

\* Payloads of earnPoints.
EarnPayloads ==
    {[type |-> "LOGIN_BONUS", points |-> LOGIN_BONUS],
     [type |-> "FAVORITE_ADDED", points |-> FAVORITE_ADDED]}

\* Payloads of setLoyaltyData: a total that is or is not the sum over the
\* transactions supplied with it, and totals one earn below each reward tier.
StoredTxs ==
    {TxAt(e.type, e.points, t) : e \in EarnPayloads, t \in 0 .. MaxClock}
StoredPoints == {0, 5, 42, 45, 95, 245, 495, 995}
HydratePayloads ==
    {[points |-> p, transactions |-> txs] :
        p \in StoredPoints, txs \in {<<>>} \cup {<<x>> : x \in StoredTxs}}

LedgerFrozen ==
    UNCHANGED <<auth, favorites, storage, hasError, error, isHydrating, pendingLogins,
                detail, favList, timers, nLoginFulfilled, nFavInserted,
                listVars, themeVars>>

\* Time passes between two dispatches.
LedgerTick ==
    /\ clock < MaxClock
    /\ clock' = clock + 1
    /\ lastOp' = Op("other")
    /\ UNCHANGED <<loyalty, earnLog, nSetLoyalty>>
    /\ LedgerFrozen

DispatchEarnPoints(payload) ==
    /\ Len(earnLog) < MaxEarns
    /\ Len(loyalty.transactions) < MaxEarns
    /\ loyalty' = earnPointsAt(loyalty, payload.type, payload.points, clock)
    /\ earnLog' = Append(earnLog, TxAt(payload.type, payload.points, clock))
    /\ lastOp' = [op |-> "earnPoints", snap |-> Some(payload),
                 fail |-> "none", first |-> FALSE]
    /\ UNCHANGED <<clock, nSetLoyalty>>
    /\ LedgerFrozen

DispatchSetLoyaltyData(payload) ==
    /\ loyalty' = setLoyaltyData(loyalty, payload)
    /\ nSetLoyalty' = Min(nSetLoyalty + 1, 2)
    /\ lastOp' = [op |-> "setLoyaltyData", snap |-> Some(payload),
                 fail |-> "none", first |-> FALSE]
    /\ UNCHANGED <<clock, earnLog>>
    /\ LedgerFrozen

DispatchResetLoyalty ==
    /\ loyalty' = resetLoyalty(loyalty)
    /\ lastOp' = [op |-> "resetLoyalty", snap |-> Some(loyalty),
                 fail |-> "none", first |-> FALSE]
    /\ UNCHANGED <<clock, earnLog, nSetLoyalty>>
    /\ LedgerFrozen

LedgerNext ==
    \/ LedgerTick
    \/ \E payload \in EarnPayloads : DispatchEarnPoints(payload)
    \/ \E payload \in HydratePayloads : DispatchSetLoyaltyData(payload)
    \/ DispatchResetLoyalty

LedgerSpec == Init /\ [][LedgerNext]_vars

\* ======================================================= the favorites screens
\* A stored session (token and user data written by an earlier run) in which
\* only the product detail screen and the favorites screen are used, over a
\* catalog of NumFavProducts products.
FavProducts == 1 .. NumFavProducts

SessionStorage ==
    [EmptyStorage EXCEPT !["authToken"] = Json(AccessToken),
                         !["userData"] = Json(UserData)]

FavInit == Boot(SessionStorage) /\ ListBoot /\ ThemeBoot("light", None)

FavNext ==
    \/ \E failAt \in ReadFailPoints : HydrateAuth(failAt)
    \/ \E p \in FavProducts : OpenDetail(p)
    \/ OpenFavorites
    \/ Render
    \/ \E saveOk \in BOOLEAN : ToggleFavoriteAdd(saveOk)
    \/ \E saveOk \in BOOLEAN : ToggleFavoriteRemove(saveOk)
    \/ \E saveOk \in BOOLEAN : TimerFire(saveOk)
    \/ \E p \in FavProducts, saveOk \in BOOLEAN : HandleRemove(p, saveOk)
    \/ Restart

FavSpec == FavInit /\ [][FavNext]_vars

\* ======================================================= the product list
\* ProductListScreen with its hooks and the products slice, the session
\* around it left out: the screen mounts and unmounts, the user types,
\* picks categories and refreshes, the two requests settle, time passes.
\* A dispatch from a handler, the re-render it causes and the effects of that
\* render (cleanup first) make one step.

\* What GET /products and GET /products/categories answer.
Catalog ==
    <<[id |-> 1, category |-> "c1", title |-> <<"a", "B">>],
      [id |-> 2, category |-> "c2", title |-> <<"b", " ", "a">>],
      [id |-> 3, category |-> "c1", title |-> <<"A">>]>>
CatalogCategories == <<"c1", "c2">>

\* Texts the search field is given.
QueryTexts == {<<>>, <<" ">>, <<"A", " ">>, <<"b">>}

ListFrozen ==
    UNCHANGED <<auth, loyalty, favorites, storage, hasError, error,
                isHydrating, pendingLogins, detail, favList, timers, earnLog,
                nSetLoyalty, nLoginFulfilled, nFavInserted, clock, themeVars>>

\* The early return of the render: the error view replaces the search field,
\* the chips and the list.
ErrorView == products.error # Null /\ ~products.loading

\* Variant: the effect arms a timer and never clears the one before.
useDebounceEffectNoCleanup(pending, value) ==
    pending \cup {[value |-> value, remaining |-> DebounceTicks]}

\* useDebounce's effect for a new value: the cleanup of the previous run
\* clears its timer, then a timer for the value is set.
useDebounceEffect(pending, value) ==
    {[value |-> value, remaining |-> DebounceTicks]}

\* The screen mounts: useDebounce starts from the query in the store, and the
\* effects run in order (timer, the two fetches, the filter).
ListMount ==
    /\ ~listMounted
    /\ fetching.products < MaxFetches
    /\ fetching.categories < MaxFetches
    /\ listMounted' = TRUE
    /\ debounced' = products.searchQuery
    /\ debounceTimers' = useDebounceEffect({}, products.searchQuery)
    /\ inputAge' = 0
    /\ products' = filterProducts(fetchProductsPending(products))
    /\ fetching' = [products |-> fetching.products + 1,
                    categories |-> fetching.categories + 1]
    /\ lastOp' = Op("filterProducts")
    /\ ListFrozen

\* The screen unmounts (the navigator leaves the main tabs): the cleanup of
\* useDebounce's effect clears the timer.
ListUnmount ==
    /\ listMounted
    /\ listMounted' = FALSE
    /\ debounceTimers' = {}
    /\ lastOp' = Op("other")
    /\ UNCHANGED <<products, fetching, debounced, inputAge>>
    /\ ListFrozen

\* onChangeText, and the clear button for the empty text.
ChangeText(text) ==
    /\ listMounted
    /\ ~ErrorView
    /\ text # products.searchQuery
    /\ products' = setSearchQuery(products, text)
    /\ debounceTimers' = useDebounceEffect(debounceTimers, text)
    /\ inputAge' = 0
    /\ lastOp' = Op("setSearchQuery")
    /\ UNCHANGED <<listMounted, fetching, debounced>>
    /\ ListFrozen

\* handleCategoryPress: the chip of a fetched category; the selected one
\* goes back to 'all'.  The filter effect runs on the new selection.
PressCategory(category) ==
    /\ listMounted
    /\ ~ErrorView
    /\ \E i \in 1 .. Len(products.categories) :
           products.categories[i] = category
    /\ products' = filterProducts(setSelectedCategory(products,
                       IF category = products.selectedCategory
                       THEN "all" ELSE category))
    /\ lastOp' = Op("filterProducts")
    /\ UNCHANGED <<listMounted, fetching, debounced, debounceTimers, inputAge>>
    /\ ListFrozen

\* The "All" chip.
PressAll ==
    /\ listMounted
    /\ ~ErrorView
    /\ products.selectedCategory # "all"
    /\ products' = filterProducts(setSelectedCategory(products, "all"))
    /\ lastOp' = Op("filterProducts")
    /\ UNCHANGED <<listMounted, fetching, debounced, debounceTimers, inputAge>>
    /\ ListFrozen

\* handleRefresh, from pull-to-refresh and from the error view's retry.
HandleRefresh ==
    /\ listMounted
    /\ ~products.loading
    /\ fetching.products < MaxFetches
    /\ fetching.categories < MaxFetches
    /\ LET dispatched ==
               fetchProductsPending(
                   setSelectedCategory(setSearchQuery(products, <<>>), "all"))
       IN  /\ products' = IF products.selectedCategory # "all"
                          THEN filterProducts(dispatched) ELSE dispatched
           /\ lastOp' = Op(IF products.selectedCategory # "all"
                           THEN "filterProducts" ELSE "other")
    /\ fetching' = [products |-> fetching.products + 1,
                    categories |-> fetching.categories + 1]
    /\ IF products.searchQuery # <<>>
       THEN /\ debounceTimers' = useDebounceEffect(debounceTimers, <<>>)
            /\ inputAge' = 0
       ELSE UNCHANGED <<debounceTimers, inputAge>>
    /\ UNCHANGED <<listMounted, debounced>>
    /\ ListFrozen

\* Time passes.
ListTick ==
    /\ \/ inputAge < DebounceTicks
       \/ \E t \in debounceTimers : t.remaining > 0
    /\ inputAge' = Min(inputAge + 1, DebounceTicks)
    /\ debounceTimers' =
           {[t EXCEPT !.remaining = IF t.remaining > 0 THEN t.remaining - 1
                                    ELSE 0] : t \in debounceTimers}
    /\ lastOp' = Op("other")
    /\ UNCHANGED <<products, listMounted, fetching, debounced>>
    /\ ListFrozen

\* A due timer of useDebounce fires: setDebouncedValue(value); a changed
\* debounced value re-renders the screen and runs the filter effect.
DebounceFire ==
    \E t \in debounceTimers :
        /\ t.remaining = 0
        /\ debounceTimers' = debounceTimers \ {t}
        /\ debounced' = t.value
        /\ IF t.value # debounced
           THEN /\ products' = filterProducts(products)
                /\ lastOp' = Op("filterProducts")
           ELSE /\ products' = products
                /\ lastOp' = Op("other")
        /\ UNCHANGED <<listMounted, fetching, inputAge>>
        /\ ListFrozen

\* fetchProducts settles.
FetchProductsFulfilled ==
    /\ fetching.products > 0
    /\ products' = fetchProductsFulfilled(products, Catalog)
    /\ fetching' = [fetching EXCEPT !.products = @ - 1]
    /\ lastOp' = Op("fetchProductsFulfilled")
    /\ UNCHANGED <<listMounted, debounced, debounceTimers, inputAge>>
    /\ ListFrozen

FetchProductsRejected ==
    /\ fetching.products > 0
    /\ products' = fetchProductsRejected(products)
    /\ fetching' = [fetching EXCEPT !.products = @ - 1]
    /\ lastOp' = Op("other")
    /\ UNCHANGED <<listMounted, debounced, debounceTimers, inputAge>>
    /\ ListFrozen

\* fetchCategories settles; no reducer handles its rejection.
FetchCategoriesSettled(ok) ==
    /\ fetching.categories > 0
    /\ products' = IF ok THEN fetchCategoriesFulfilled(products,
                                                        CatalogCategories)
                   ELSE products
    /\ fetching' = [fetching EXCEPT !.categories = @ - 1]
    /\ lastOp' = Op("other")
    /\ UNCHANGED <<listMounted, debounced, debounceTimers, inputAge>>
    /\ ListFrozen

ListNext ==
    \/ ListMount
    \/ ListUnmount
    \/ \E text \in QueryTexts : ChangeText(text)
    \/ \E category \in {"c1", "c2"} : PressCategory(category)
    \/ PressAll
    \/ HandleRefresh
    \/ ListTick
    \/ DebounceFire
    \/ FetchProductsFulfilled
    \/ FetchProductsRejected
    \/ \E ok \in BOOLEAN : FetchCategoriesSettled(ok)

ListSpec == Init /\ [][ListNext]_vars

\* Timers run: time passes while a timer is waiting, and a due timer fires.
ListFairSpec == ListSpec /\ WF_vars(ListTick) /\ WF_vars(DebounceFire)

\* ======================================================= the theme provider
\* ThemeProvider alone: the preference is loaded once per process, toggled
\* from the header switch, and written under THEME_STORAGE_KEY, a key no
\* other code reads or removes.  AsyncStorage serves its calls in the order
\* they were made.  A toggle and the re-render that hands the switch the new
\* toggleTheme are one step.

\* What useColorScheme() returns.
Schemes == {"dark", "light", Null}

ThemeFrozen ==
    UNCHANGED <<auth, loyalty, favorites, storage, hasError, error,
                isHydrating, pendingLogins, detail, favList, timers, earnLog,
                nSetLoyalty, nLoginFulfilled, nFavInserted, clock, listVars>>

\* The string toggleTheme stores for a value of isDark.
themeText(dark) == IF dark THEN "dark" ELSE "light"

\* Variant: the saved preference is read and not applied.
loadThemeKeepsDefault(current, saved) == current

\* loadTheme's try block: isDark after the read of the saved preference.
loadTheme(current, saved) ==
    IF saved # None THEN Get(saved) = "dark" ELSE current

\* loadTheme settles: the read succeeded or threw; isLoaded is set in either
\* case.
ThemeLoad(readOk) ==
    /\ ~isLoaded
    /\ isDark' = IF readOk THEN loadTheme(isDark, themeStored) ELSE isDark
    /\ isLoaded' = TRUE
    /\ themeHist' = [themeHist EXCEPT !.loadFailed = ~readOk]
    /\ lastOp' = Op("loadTheme")
    /\ UNCHANGED <<systemScheme, themeStored, themeWrites>>
    /\ ThemeFrozen

\* toggleTheme up to its await: the switch exists once the children render.
ToggleTheme ==
    /\ isLoaded
    /\ Len(themeWrites) < MaxThemeWrites
    /\ LET next == ~isDark
       IN  /\ isDark' = next
           /\ themeWrites' = Append(themeWrites, themeText(next))
           /\ themeHist' =
                  [themeHist EXCEPT
                      !.lastSet = Some(next),
                      !.trail = IF Len(@) < 2 THEN Append(@, isDark)
                                ELSE <<@[2], isDark>>]
    /\ lastOp' = Op("toggleTheme")
    /\ UNCHANGED <<isLoaded, systemScheme, themeStored>>
    /\ ThemeFrozen

\* The oldest setItem settles; toggleTheme swallows its rejection.
ThemeWriteSettled(ok) ==
    /\ themeWrites # <<>>
    /\ themeWrites' = Tail(themeWrites)
    /\ themeStored' = IF ok THEN Some(Head(themeWrites)) ELSE themeStored
    /\ themeHist' = [themeHist EXCEPT !.failed = @ \/ ~ok]
    /\ lastOp' = Op("other")
    /\ UNCHANGED <<isDark, isLoaded, systemScheme>>
    /\ ThemeFrozen

\* The process is killed and launched again, under a system scheme that may
\* have changed: state is lost, writes in flight are cut off, the stored
\* preference is kept.
ThemeRestart(scheme) ==
    /\ lastOp.op # "boot"
    /\ systemScheme' = scheme
    /\ isDark' = (scheme = "dark")
    /\ isLoaded' = FALSE
    /\ themeWrites' = <<>>
    /\ themeHist' = [themeHist EXCEPT !.failed = @ \/ themeWrites # <<>>,
                                      !.loadFailed = FALSE,
                                      !.trail = <<>>]
    /\ lastOp' = Op("boot")
    /\ UNCHANGED themeStored
    /\ ThemeFrozen

ThemeInit ==
    /\ Boot(EmptyStorage)
    /\ ListBoot
    /\ \E scheme \in Schemes : ThemeBoot(scheme, None)

ThemeNext ==
    \/ \E readOk \in BOOLEAN : ThemeLoad(readOk)
    \/ ToggleTheme
    \/ \E ok \in BOOLEAN : ThemeWriteSettled(ok)
    \/ \E scheme \in Schemes : ThemeRestart(scheme)

ThemeSpec == ThemeInit /\ [][ThemeNext]_vars

\* ======================================================= properties

\* C1: in a process whose ledger started empty and was changed by earnPoints
\* only (no setLoyaltyData so far), points is the sum of the points payloads
\* of all earnPoints dispatched and transactions has one entry per dispatch.
C1_PointsSumOfEarns ==
    nSetLoyalty = 0 =>
        /\ loyalty.points = SumPoints(earnLog)
        /\ Len(loyalty.transactions) = Len(earnLog)

\* C1 witness: a login bonus and a favorite bonus were earned, in that order.
C1_Witness ==
    /\ nSetLoyalty = 0
    /\ Len(earnLog) = 2
    /\ earnLog[1].type = "LOGIN_BONUS"
    /\ earnLog[2].type = "FAVORITE_ADDED"

\* C2: in every reachable state points equals the sum of the points fields of
\* the transactions.
C2_PointsEqualHistorySum == loyalty.points = SumPoints(loyalty.transactions)

\* C2 witness: a ledger hydrated from a stored snapshot, then earned on.
C2_Witness ==
    /\ nSetLoyalty > 0
    /\ lastOp.op = "favoriteAdd"
    /\ Len(loyalty.transactions) = 2

\* C3: no step of a running process other than a ledger reset decreases
\* points (the process being killed and started again is not such a step).
C3_PointsNeverDecrease ==
    [][lastOp'.op = "boot" \/ loyalty'.points >= loyalty.points]_vars

\* C4: right after logoutUser.fulfilled the ledger is the empty ledger and the
\* loyalty entry is gone from storage.
C4_LogoutClearsLedger ==
    lastOp.op = "logoutFulfilled" =>
        /\ loyalty = initialLoyalty
        /\ storage["loyaltyData"] = Absent

\* C5: the snapshot a hook hands to saveLoyaltyData with an earn is the
\* ledger as it is after that earn.
C5_SnapshotIsLedger ==
    lastOp.op \in {"loginFulfilled", "favoriteAdd"} =>
        Get(lastOp.snap) = loyalty

\* C6: the FAVORITE_ADDED bonuses earned are as many as the addFavorite
\* dispatches that inserted an item.
C6_OneBonusPerInsert == CountType(earnLog, "FAVORITE_ADDED") = nFavInserted

\* C7: a step that removes a favorite, from the detail screen or from the
\* favorites list, changes neither the ledger nor the stored loyalty entry
\* and schedules no loyalty save.
C7_RemoveLeavesLedger ==
    [][lastOp'.op \in {"favoriteRemove", "handleRemove"} =>
          /\ loyalty' = loyalty
          /\ storage'["loyaltyData"] = storage["loyaltyData"]
          /\ timers' = timers]_vars

\* C7 witness: a favorite was just removed on the detail screen while the
\* ledger holds points and the save of the favorite bonus is still pending.
C7_Witness ==
    /\ lastOp.op = "favoriteRemove"
    /\ loyalty.points > 0
    /\ timers # <<>>

\* C8: the LOGIN_BONUS earns of a process are as many as its fulfilled
\* loginUser thunks, each worth 5 points; rejected logins, presses stopped by
\* validation and restored sessions add none.
C8_OneBonusPerLogin ==
    /\ CountType(earnLog, "LOGIN_BONUS") = nLoginFulfilled
    /\ \A i \in 1 .. Len(earnLog) :
           earnLog[i].type = "LOGIN_BONUS" => earnLog[i].points = 5

\* C8 witness: a session was restored from storage together with its ledger
\* and ended by logout, and a login has then succeeded.
C8_Witness ==
    /\ lastOp.op = "loginFulfilled"
    /\ nSetLoyalty > 0
    /\ nLoginFulfilled = 1
    /\ Len(loyalty.transactions) = 2

\* C9: after hydrateAuth has run with every read succeeding, a parseable
\* loyalty entry is the in-memory ledger.
C9_LedgerHydrated ==
    (/\ lastOp.op = "hydrateAuth"
     /\ lastOp.fail = "none"
     /\ storage["loyaltyData"].kind = "json")
        => loyalty = Parsed(storage["loyaltyData"])

\* C10: after hydrateAuth ran at startup with the loyalty entry missing,
\* unparseable or unreadable, the ledger is the empty ledger and isHydrating
\* is false.
C10_HydrationFallsBack ==
    (/\ lastOp.op = "hydrateAuth"
     /\ lastOp.first
     /\ \/ storage["loyaltyData"].kind # "json"
        \/ lastOp.fail = "loyaltyData")
        => /\ loyalty = initialLoyalty
           /\ ~isHydrating

\* C10 witness: startup with a stored session whose loyalty entry is
\* unparseable.
C10_Witness ==
    /\ lastOp.op = "hydrateAuth"
    /\ lastOp.first
    /\ auth.isLoggedIn
    /\ storage["loyaltyData"] = Corrupt

\* C11: in a process whose ledger only favorite toggles have changed, once a
\* delayed loyalty write has landed in storage and no further one is pending,
\* the stored snapshot is the in-memory ledger.
C11_DelayedWriteReconciles ==
    [][(/\ nSetLoyalty = 0
        /\ nLoginFulfilled = 0
        /\ lastOp'.op # "boot"
        /\ timers # <<>>
        /\ timers' = <<>>
        /\ storage'["loyaltyData"] = Json(Head(timers)))
           => Parsed(storage'["loyaltyData"]) = loyalty']_vars

\* C12: a handler whose write to storage fails (every write is tried with
\* both outcomes) leaves favorites and the ledger as its reducers left them,
\* and the error boundary is not triggered; the callback of the delayed write
\* changes neither.
C12_FailedWriteSwallowed ==
    [][/\ lastOp'.op = "favoriteAdd" =>
             /\ favorites' = addFavorite(favorites, Get(detail).product)
             /\ loyalty' = earnPoints(loyalty, "FAVORITE_ADDED", FAVORITE_ADDED)
             /\ hasError' = hasError
       /\ lastOp'.op = "favoriteRemove" =>
             /\ favorites' = removeFavorite(favorites, Get(detail).product)
             /\ hasError' = hasError
       /\ lastOp'.op = "handleRemove" =>
             /\ \E p \in Products : favorites' = removeFavorite(favorites, p)
             /\ hasError' = hasError
       /\ lastOp'.op = "loginFulfilled" =>
             /\ loyalty' = earnPoints(loyalty, "LOGIN_BONUS", LOGIN_BONUS)
             /\ auth'.isLoggedIn
             /\ hasError' = hasError
       /\ (timers # <<>> /\ timers' = Tail(timers) /\ lastOp'.op # "boot") =>
             /\ loyalty' = loyalty
             /\ favorites' = favorites
             /\ hasError' = hasError]_vars

\* C12 witness: a favorite was just added and earned its bonus although no
\* write of the favorites list or of the ledger has ever landed.
C12_Witness ==
    /\ lastOp.op = "favoriteAdd"
    /\ storage["favorites"] = Absent
    /\ storage["loyaltyData"] = Absent
    /\ Contains(favorites, 1)
    /\ loyalty.points >= FAVORITE_ADDED

\* C13: an earnPoints dispatch puts the new transaction, with the payload's
\* type and points, at index 0, keeps every earlier transaction unchanged one
\* index further, and so grows the history by exactly one; the transaction
\* created last is the one at index 0.
C13_NewestFirst ==
    [][lastOp'.op = "earnPoints" =>
          /\ Len(loyalty'.transactions) = Len(loyalty.transactions) + 1
          /\ Tail(loyalty'.transactions) = loyalty.transactions
          /\ Head(loyalty'.transactions).type = Get(lastOp'.snap).type
          /\ Head(loyalty'.transactions).points = Get(lastOp'.snap).points
          /\ Head(loyalty'.transactions) = earnLog'[Len(earnLog')]]_vars

\* C13 witness: an earn on top of a history of one transaction of the other
\* type.
C13_Witness ==
    /\ lastOp.op = "earnPoints"
    /\ Len(loyalty.transactions) = 2
    /\ loyalty.transactions[1].type = "FAVORITE_ADDED"
    /\ loyalty.transactions[2].type = "LOGIN_BONUS"

\* C14: resetLoyalty turns whatever ledger it meets into {points: 0,
\* transactions: []}, and applying it to its own result changes nothing.
C14_ResetYieldsInitial ==
    /\ resetLoyalty(loyalty) = [points |-> 0, transactions |-> <<>>]
    /\ resetLoyalty(resetLoyalty(loyalty)) = resetLoyalty(loyalty)
    /\ lastOp.op = "resetLoyalty" =>
           loyalty = [points |-> 0, transactions |-> <<>>]

\* C14 witness: resetLoyalty was dispatched on a ledger holding points and a
\* transaction.
C14_Witness ==
    /\ lastOp.op = "resetLoyalty"
    /\ Get(lastOp.snap).points > 0
    /\ Get(lastOp.snap).transactions # <<>>
    /\ loyalty.points = 0

\* C15: after setLoyaltyData the ledger is exactly the payload, whatever the
\* ledger was and whether or not the payload's points is the sum over its
\* transactions.
C15_HydrateReplaces ==
    lastOp.op = "setLoyaltyData" =>
        /\ loyalty.points = Get(lastOp.snap).points
        /\ loyalty.transactions = Get(lastOp.snap).transactions

\* C15 witness: a payload of 42 points with one transaction of 5 was
\* dispatched in a process that had earned before.
C15_Witness ==
    /\ lastOp.op = "setLoyaltyData"
    /\ earnLog # <<>>
    /\ loyalty.points = 42
    /\ SumPoints(loyalty.transactions) = 5

\* C17: the transactions earnPoints has created have pairwise distinct ids.
C17_DistinctIds ==
    \A i, j \in 1 .. Len(earnLog) :
        i # j => earnLog[i].id # earnLog[j].id

\* C16: setLoyaltyData is dispatched at most once in a process, and never
\* after an earnPoints of that process.
C16_HydratedOnceAtStartup ==
    [][nSetLoyalty' > nSetLoyalty =>
          /\ nSetLoyalty = 0
          /\ earnLog = <<>>]_vars

\* C18: the step in which a loginUser thunk ends rejected changes neither the
\* ledger nor the stored loyalty entry nor isLoggedIn, and leaves loading
\* false and a message in auth.error.
C18_FailedLoginNoImpact ==
    [][(/\ pendingLogins' < pendingLogins
        /\ nLoginFulfilled' = nLoginFulfilled
        /\ lastOp'.op # "boot")
           => /\ loyalty' = loyalty
              /\ earnLog' = earnLog
              /\ storage'["loyaltyData"] = storage["loyaltyData"]
              /\ auth'.isLoggedIn = auth.isLoggedIn
              /\ ~auth'.loading
              /\ auth'.error # Null]_vars

\* C18 witness: a login has failed on the login screen of a process whose
\* ledger holds points; the user is not logged in and sees the message.
C18_Witness ==
    /\ auth.error = "message"
    /\ ~auth.isLoggedIn
    /\ ~auth.loading
    /\ pendingLogins = 0
    /\ loyalty.points > 0

\* C19: when hydrateAuth at startup has restored a stored session and read
\* the favorites entry, a parseable favorites entry is the in-memory list,
\* whatever the state of the loyalty entry.
C19_FavoritesHydrated ==
    (/\ lastOp.op = "hydrateAuth"
     /\ lastOp.first
     /\ auth.isLoggedIn
     /\ lastOp.fail # "favorites"
     /\ storage["favorites"].kind = "json")
        => favorites = Parsed(storage["favorites"])

\* C20: while isHydrating is true neither the login screen nor the tab
\* screens are rendered and no handler of theirs runs; isHydrating turns
\* false only in the step of hydrateAuth, turns true again only in a newly
\* mounted navigator (retry of the error boundary) or a new process, and
\* whenever it is true it eventually becomes false.
C20_SplashUntilHydrated ==
    /\ [](isHydrating =>
            /\ ~MainVisible
            /\ ~LoginVisible
            /\ detail = None
            /\ favList = None)
    /\ [][isHydrating =>
             \/ lastOp'.op \in {"hydrateAuth", "boot"}
             \/ /\ pendingLogins' <= pendingLogins
                /\ favorites' = favorites
                /\ detail' = detail
                /\ favList' = favList
                /\ timers' = timers \/ timers' = Tail(timers)
                /\ auth.isLoggedIn => auth'.isLoggedIn]_vars
    /\ [][(isHydrating /\ ~isHydrating') => lastOp'.op = "hydrateAuth"]_vars
    /\ [][(~isHydrating /\ isHydrating') => (hasError \/ lastOp'.op = "boot")]_vars
    /\ (isHydrating ~> ~isHydrating)

\* C20 witness: startup hydration has just finished with a restored session
\* and ledger; nothing is rendered yet.
C20_Witness ==
    /\ lastOp.op = "hydrateAuth"
    /\ lastOp.first
    /\ ~isHydrating
    /\ auth.isLoggedIn
    /\ loyalty.points > 0
    /\ detail = None

C27_LogoutLogsOut ==
    lastOp.op \in {"logoutFulfilled", "logoutRejected"} => auth = initialAuth

\* C28: the step in which a loginUser thunk ends rejected leaves no auth
\* token in a store that held none.
C28_RejectedLeavesNoToken ==
    [][(/\ pendingLogins' < pendingLogins
        /\ nLoginFulfilled' = nLoginFulfilled
        /\ lastOp'.op # "boot"
        /\ storage["authToken"] = Absent)
           => storage'["authToken"] = Absent]_vars

NoDup(items) ==
    \A i, j \in 1 .. Len(items) : i # j => items[i] # items[j]

\* C21: no two items of favorites share an id, in memory and in the list the
\* application persisted (which setFavorites is fed with); addFavorite of an
\* id already present leaves the list unchanged; removeFavorite(id) yields
\* the list without that id, the others in their order.
C21_FavoritesUnique ==
    /\ NoDup(favorites)
    /\ storage["favorites"].kind = "json" => NoDup(Parsed(storage["favorites"]))
    /\ \A p \in FavProducts :
          /\ Contains(favorites, p) => addFavorite(favorites, p) = favorites
          /\ removeFavorite(favorites, p) =
                 SelectSeq(favorites, LAMBDA x : x # p)
          /\ Len(removeFavorite(favorites, p)) =
                 Len(favorites) - (IF Contains(favorites, p) THEN 1 ELSE 0)

\* C21 witness: addFavorite was dispatched for a product already in a list
\* of two (a second press before the detail screen re-rendered).
C21_Witness ==
    /\ lastOp.op = "favoriteAdd"
    /\ Len(favorites) = 2
    /\ CountType(earnLog, "FAVORITE_ADDED") > nFavInserted

\* C26: when a handler's write of the favorites list lands in storage, the
\* stored list is the in-memory list.
C26_StoredFavoritesAreItems ==
    [][(/\ lastOp'.op \in {"favoriteAdd", "favoriteRemove", "handleRemove"}
        /\ storage'["favorites"] # storage["favorites"])
           => storage'["favorites"] = Json(favorites')]_vars

\* C30: for the points of the ledger, the unlocked tiers are exactly the tiers
\* whose threshold is at most the points and are a prefix of REWARD_TIERS
\* (50, 100, 250, 500, 1000), each tier's card is shown unlocked exactly when
\* the tier is among them, the next tier is the lowest tier above the points
\* (none from 1000 on), and a step other than resetLoyalty and setLoyaltyData
\* leaves every unlocked tier unlocked.
C30_TiersUnlockMonotonically ==
    /\ [](LET pts == loyalty.points
              reached == {i \in 1 .. Len(REWARD_TIERS) :
                             REWARD_TIERS[i].points <= pts}
          IN  /\ pts >= 0
              /\ [i \in 1 .. Len(REWARD_TIERS) |-> REWARD_TIERS[i].points]
                     = <<50, 100, 250, 500, 1000>>
              /\ unlockedTiers(pts)
                     = SubSeq(REWARD_TIERS, 1, Cardinality(reached))
              /\ \A i \in 1 .. Len(REWARD_TIERS) :
                     /\ i \in reached <=> i <= Cardinality(reached)
                     /\ isUnlocked(pts, REWARD_TIERS[i]) <=> i \in reached
              /\ IF pts >= 1000 THEN nextTier(pts) = None
                 ELSE /\ nextTier(pts) # None
                      /\ Get(nextTier(pts)).points > pts
                      /\ \A i \in 1 .. Len(REWARD_TIERS) :
                             REWARD_TIERS[i].points > pts
                                 => Get(nextTier(pts)).points
                                        <= REWARD_TIERS[i].points)
    /\ [][lastOp'.op \notin {"resetLoyalty", "setLoyaltyData"}
              => /\ loyalty'.points >= loyalty.points
                 /\ \A i \in 1 .. Len(REWARD_TIERS) :
                        isUnlocked(loyalty.points, REWARD_TIERS[i])
                            => isUnlocked(loyalty'.points, REWARD_TIERS[i])]_vars

\* An earn has just carried the points onto the last threshold.
C30_Witness ==
    /\ lastOp.op = "earnPoints"
    /\ loyalty.points = 1000
    /\ Len(unlockedTiers(loyalty.points)) = 5
    /\ nextTier(loyalty.points) = None

\* C22: after a step that ends with filterProducts, filteredItems is exactly
\* the subsequence of items, in their order, of the items whose category is
\* selectedCategory (every item when it is 'all') and whose title contains the
\* search query, trimmed, without regard to case (every item when the trimmed
\* query is empty); items is what it was.
C22_FilterIsSubsequence ==
    [][lastOp'.op = "filterProducts" =>
          LET state == products'
              text == state.searchQuery
              inked == {i \in 1 .. Len(text) : text[i] # " "}
              first == CHOOSE i \in inked : \A j \in inked : i <= j
              last == CHOOSE i \in inked : \A j \in inked : j <= i
              query == IF inked = {} THEN <<>> ELSE SubSeq(text, first, last)
              Within(title) ==
                  \E at \in 0 .. Len(title) :
                      /\ at + Len(query) <= Len(title)
                      /\ \A k \in 1 .. Len(query) :
                             LowerChar(title[at + k]) = LowerChar(query[k])
              Matches(item) ==
                  /\ state.selectedCategory = "all"
                         \/ item.category = state.selectedCategory
                  /\ query = <<>> \/ Within(item.title)
          IN  /\ state.filteredItems = SelectSeq(state.items, Matches)
              /\ state.items = products.items]_vars

\* A category and a query in capitals with a trailing blank have selected the
\* first and the third item of the catalog.
C22_Witness ==
    /\ lastOp.op = "filterProducts"
    /\ products.selectedCategory = "c1"
    /\ products.searchQuery = <<"A", " ">>
    /\ products.items = Catalog
    /\ products.filteredItems = <<Catalog[1], Catalog[3]>>

\* C25: once the products are fetched, with no fetch in flight and no change
\* of the query still waiting for its debounce, filteredItems is what the
\* selected category and the search query select from items; so it is right
\* after fetchProducts.fulfilled, whatever was chosen while it was in flight.
C25_FilteredAgreeWithFilters ==
    /\ (/\ listMounted
        /\ products.items # <<>>
        /\ fetching.products = 0
        /\ ~products.loading
        /\ products.error = Null
        /\ debounced = products.searchQuery)
           => products.filteredItems = filterProducts(products).filteredItems
    /\ lastOp.op = "fetchProductsFulfilled"
           => products.filteredItems = filterProducts(products).filteredItems

\* C29: while the screen is mounted, useDebounce holds at most one timer and
\* it carries the present search query (the timer of a replaced value is
\* cleared, so that value is never emitted); the debounced value changes only
\* to the present query and only when the query has been the input for the
\* whole delay; and a query that stays the input is eventually the debounced
\* value.
C29_DebounceEmitsSettledInput ==
    /\ [](listMounted =>
             /\ Cardinality(debounceTimers) <= 1
             /\ \A t \in debounceTimers : t.value = products.searchQuery)
    /\ [][(listMounted /\ debounced' # debounced) =>
              /\ debounced' = products.searchQuery
              /\ products'.searchQuery = products.searchQuery
              /\ inputAge = DebounceTicks]_vars
    /\ \A text \in QueryTexts :
           (listMounted /\ products.searchQuery = text)
               ~> (debounced = text \/ products.searchQuery # text
                      \/ ~listMounted)

\* A query was emitted after its delay, then replaced by another whose timer
\* is now due.
C29_Witness ==
    /\ listMounted
    /\ debounced = <<"b">>
    /\ products.searchQuery = <<"A", " ">>
    /\ debounceTimers = {[value |-> <<"A", " ">>, remaining |-> 0]}
    /\ inputAge = DebounceTicks

\* C24: when every write of the preference so far has succeeded and none is
\* in flight, a process that has read the preference and not toggled yet has
\* isDark equal to the value the last toggleTheme set, whatever the system
\* scheme; a process that has read an absent preference has isDark equal to
\* whether the system scheme is dark; and after two toggles in one process
\* isDark is what it was before the first of them.
C24_ThemeSurvivesRestart ==
    /\ (/\ isLoaded
        /\ ~themeHist.loadFailed
        /\ themeHist.trail = <<>>
        /\ themeHist.lastSet # None
        /\ ~themeHist.failed)
           => isDark = Get(themeHist.lastSet)
    /\ (/\ isLoaded
        /\ ~themeHist.loadFailed
        /\ themeHist.trail = <<>>
        /\ themeStored = None)
           => isDark = (systemScheme = "dark")
    /\ Len(themeHist.trail) = 2 => isDark = themeHist.trail[1]

\* Every write so far succeeded, the last toggle set the dark theme, and a
\* process launched under a light system scheme has loaded it.
C24_Witness ==
    /\ lastOp.op = "loadTheme"
    /\ isLoaded
    /\ ~themeHist.loadFailed
    /\ ~themeHist.failed
    /\ themeHist.lastSet = Some(TRUE)
    /\ systemScheme = "light"
    /\ themeStored = Some("dark")
    /\ isDark

====
